---- MODULE Spec2Model ----
(***************************************************************************)
(* Offer lifecycle and settlement of automatch-backend:                    *)
(* controllers/buyerOfferController.js (createOffer, cancelOffer) and      *)
(* controllers/sellerListingController.js (viewEventOffers, acceptOffer,   *)
(* bulkUpload).                                                            *)
(*                                                                         *)
(* Every request handler is a process that advances from one await to the  *)
(* next, one action per await; the store (MongoDB through mongoose) and    *)
(* the payment service (Stripe payment intents) are the shared state.  A   *)
(* call to either may throw.  The writes of acceptOffer run in a store     *)
(* transaction: they are buffered with the request until commitTransaction *)
(* applies them, and abortTransaction discards them.  getMyOffers only     *)
(* reads the store and has no action.                                      *)
(***************************************************************************)
EXTENDS Integers, FiniteSets, Sequences, TLC

\* ---- bounds of the model ------------------------------------------------
\* number of acceptOffer, cancelOffer and viewEventOffers requests that
\* arrive, all kinds together
MaxRequests == 2
\* largest maxPrice of the offers whose settlement amounts are computed
MaxFeePrice == 40
\* longest list of listings of a bulkUpload request
MaxBulkItems == 3
\* number of offers the expiry sweep finds in the store
MaxSweepOffers == 3

\* createOffer, cancelOffer and acceptOffer read and write one offer, and
\* viewEventOffers updates the offers it finds one by one, so the model follows
\* the offer of one createOffer request: a request that names it before it is
\* persisted finds no document.
OfferIds == {"o1"}
\* the requests of each kind, numbered in their order of arrival
AcceptReqs == 1..MaxRequests
CancelReqs == 1..MaxRequests
ViewReqs == 1..MaxRequests
\* inputs of the requests
Users == {"u1", "u2"}
Buyers == {"u1"}
Sections == {"A", "B"}
SectionLists == {{"A"}}
OfferTerms == {[maxPrice |-> 100, quantity |-> 2], [maxPrice |-> 3, quantity |-> 1]}
\* prices and quantities of the offers whose settlement amounts are computed
FeePrices == 1..MaxFeePrice
FeeQuantities == {1, 2}
\* every price an offer of the model can have
Prices == FeePrices \cup {t.maxPrice : t \in OfferTerms}
EventLookups == {"missing", "upcoming", "completed"}

Null == [status |-> "absent"]

VARIABLES
    offers,        \* BuyerOffer collection, committed: offer id -> document or Null
    docVersion,    \* offer id -> number of committed writes to the document
    listings,      \* SellerListing collection, committed documents
    transactions,  \* Transaction collection, committed documents
    intents,       \* payment service: offer id -> payment intent of that offer
    create,        \* createOffer requests
    accept,        \* acceptOffer requests
    cancel,        \* cancelOffer requests
    view,          \* viewEventOffers requests
    sweep,         \* the periodic expiry sweep
    bulk           \* the bulkUpload request

\* the state of the operations that take no part in the offer's settlement
background == <<sweep, bulk>>

vars == <<offers, docVersion, listings, transactions, intents, create, accept, cancel, view,
          background>>

\* ---- documents -----------------------------------------------------------

\* models/BuyerOffer.js is not part of the excerpt: a new offer's status is the
\* schema default, which the specification gives as active.
DefaultStatus == "active"

\* the offer with the unit price recorded as the held amount
NewBuyerOffer_AmountWithoutQuantity(buyer, sections, maxPrice, quantity) ==
    [status |-> DefaultStatus,
     buyer |-> buyer,
     sections |-> sections,
     maxPrice |-> maxPrice,
     quantity |-> quantity,
     holdAmount |-> maxPrice,
     holdStatus |-> "authorized",
     matchedListing |-> 0,
     viewCount |-> 0,
     lastViewedBy |-> <<>>]

\* new BuyerOffer({...}) of createOffer
NewBuyerOffer(buyer, sections, maxPrice, quantity) ==
    [status |-> DefaultStatus,
     buyer |-> buyer,
     sections |-> sections,
     maxPrice |-> maxPrice,
     quantity |-> quantity,
     holdAmount |-> maxPrice * quantity,
     holdStatus |-> "authorized",
     matchedListing |-> 0,
     viewCount |-> 0,
     lastViewedBy |-> <<>>]

\* amount of stripe.paymentIntents.create, in cents
HoldAmountCents(maxPrice, quantity) == maxPrice * quantity * 100

\* new SellerListing({...}) of acceptOffer; the request number is the _id
NewListing(r, seller, section, offer) ==
    [id |-> r,
     seller |-> seller,
     section |-> section,
     quantity |-> offer.quantity,
     askingPrice |-> offer.maxPrice,
     status |-> "matched"]

\* offer.status = 'matched'; offer.matchedListing = listing._id
MatchedOffer(doc, listingId) ==
    [doc EXCEPT !.status = "matched", !.matchedListing = listingId]

\* offer.status = 'cancelled'; offer.paymentIntent.status = 'cancelled'
CancelledOffer(doc) ==
    [doc EXCEPT !.status = "cancelled", !.holdStatus = "cancelled"]

\* $inc: { viewCount: 1 }, $push: { lastViewedBy: { seller, viewedAt } }
ViewedOffer(doc, seller) ==
    [doc EXCEPT !.viewCount = @ + 1, !.lastViewedBy = Append(@, seller)]

\* ---- numbers (IEEE-754 doubles of the JavaScript engine) ------------------
\* A price and the amounts computed from it are doubles.  A double that is a
\* whole multiple of 2^-Scale is written as the set of the positions of the
\* one bits of that multiple, so that position Scale is the units bit.  Every
\* amount computed below is such a multiple.
Scale == 56
\* significant bits of a double
Precision == 53
\* positions that the sums and products of the model may use
Width == 72

\* the double of an integer n >= 0
DoubleOfInt(n) == {i + Scale : i \in {j \in 0..30 : (n \div (2 ^ j)) % 2 = 1}}

\* the bits of a number written in hexadecimal digits, most significant first
BitsOfHex(digits) ==
    {4 * (Len(digits) - k) + j : k \in 1..Len(digits), j \in 0..3} \cap
    {i \in 0..(4 * Len(digits) - 1) :
        (digits[Len(digits) - (i \div 4)] \div (2 ^ (i % 4))) % 2 = 1}

\* the literal 0.1 is the double 0x1999999999999A * 2^-56
FeeRate == BitsOfHex(<<1, 9, 9, 9, 9, 9, 9, 9, 9, 9, 9, 9, 9, 10>>)
\* the literal 0.9 is the double 0x1CCCCCCCCCCCCD * 2^-53
PayoutRate == {i + 3 : i \in BitsOfHex(<<1, 12, 12, 12, 12, 12, 12, 12, 12, 12, 12, 12, 12, 13>>)}

BitAt(a, i) == IF i \in a THEN 1 ELSE 0

RECURSIVE SumFrom(_, _, _, _)
\* the bits from position i on of a + b + carry * 2^i
SumFrom(a, b, i, carry) ==
    IF i >= Width THEN {}
    ELSE LET s == BitAt(a, i) + BitAt(b, i) + carry
         IN  (IF s % 2 = 1 THEN {i} ELSE {}) \cup SumFrom(a, b, i + 1, s \div 2)

\* a + b, exact
ExactSum(a, b) == SumFrom(a, b, 0, 0)

RECURSIVE DifferenceFrom(_, _, _, _)
\* the bits from position i on of a - b - borrow * 2^i, for a >= b
DifferenceFrom(a, b, i, borrow) ==
    IF i >= Width THEN {}
    ELSE LET d == BitAt(a, i) - BitAt(b, i) - borrow
         IN  (IF d % 2 = 1 THEN {i} ELSE {}) \cup
             DifferenceFrom(a, b, i + 1, IF d < 0 THEN 1 ELSE 0)

\* a - b, exact, for a >= b
ExactDifference(a, b) == DifferenceFrom(a, b, 0, 0)

RECURSIVE ExactProduct(_, _)
\* a * n, exact, for an integer n >= 0
ExactProduct(a, n) ==
    IF n = 0 THEN {}
    ELSE LET rest == {i + 1 : i \in ExactProduct(a, n \div 2)}
         IN  IF n % 2 = 1 THEN ExactSum(a, rest) ELSE rest

TopBit(a) == CHOOSE i \in a : \A j \in a : j <= i

\* the double nearest to an exact value, ties to the even one
RoundToDouble(a) ==
    IF a = {} \/ TopBit(a) < Precision THEN a
    ELSE LET low == TopBit(a) - (Precision - 1)
             kept == {i \in a : i >= low}
             half == (low - 1) \in a
             sticky == \E i \in a : i < low - 1
             odd == low \in a
         IN  IF half /\ (sticky \/ odd) THEN ExactSum(kept, {low}) ELSE kept

\* the JavaScript operators on doubles
Times(priceInt, rate) == RoundToDouble(ExactProduct(rate, priceInt))
Plus(a, b) == RoundToDouble(ExactSum(a, b))
Minus(a, b) == RoundToDouble(ExactDifference(a, b))

\* sellerFee: offer.maxPrice * 0.1
SellerFee(maxPrice) == Times(maxPrice, FeeRate)
\* sellerPayout: offer.maxPrice * 0.9
SellerPayout(maxPrice) == Times(maxPrice, PayoutRate)

\* sellerFee and sellerPayout of every price, each computed once
AmountsOfPrice ==
    [p \in Prices |-> [sellerFee |-> SellerFee(p), sellerPayout |-> SellerPayout(p)]]

\* the monetary fields that new Transaction({...}) computes from the offer
TransactionAmounts(offer) == AmountsOfPrice[offer.maxPrice]

\* new Transaction({...}) of acceptOffer
NewTransaction(r, o, seller, section, offer) ==
    [id |-> r,
     buyer |-> offer.buyer,
     seller |-> seller,
     buyerOffer |-> o,
     sellerListing |-> r,
     quantity |-> offer.quantity,
     section |-> section,
     salePrice |-> offer.maxPrice,
     buyerPaid |-> offer.maxPrice,
     sellerFee |-> TransactionAmounts(offer).sellerFee,
     sellerPayout |-> TransactionAmounts(offer).sellerPayout]

\* ---- requests ------------------------------------------------------------
\* The requests of a kind are numbered in their order of arrival.
IdleCreate == [pc |-> "idle", res |-> "none", err |-> "none", event |-> "none",
               buyer |-> "u1", sections |-> {"A"}, maxPrice |-> 3, quantity |-> 1]
\* err is the error the inner catch of acceptOffer has caught; txn is the
\* state of the request's transaction: none, open, written (the offer document
\* is written in it), ended (commitTransaction was called, or it was aborted)
IdleAccept == [pc |-> "idle", res |-> "none", err |-> "none", offer |-> "o1",
               section |-> "A", seen |-> "none", version |-> 0, txn |-> "none"]
IdleCancel == [pc |-> "idle", res |-> "none", offer |-> "o1", requester |-> "u1",
               seen |-> "none"]
IdleView == [pc |-> "idle", res |-> "none", found |-> {}]
NoIntent == [state |-> "none", amount |-> 0]
IdleSweep == [pc |-> "idle", due |-> {}, todo |-> {}, failed |-> {}, expired |-> {}]
\* no response sent yet
NoResponse == [code |-> "none"]

IdleBulk == [pc |-> "idle", res |-> NoResponse, items |-> <<>>]

Init ==
    /\ offers = [o \in OfferIds |-> Null]
    /\ docVersion = [o \in OfferIds |-> 0]
    /\ listings = {}
    /\ transactions = {}
    /\ intents = [o \in OfferIds |-> NoIntent]
    /\ create = [c \in OfferIds |-> IdleCreate]
    /\ accept = [r \in AcceptReqs |-> IdleAccept]
    /\ cancel = [k \in CancelReqs |-> IdleCancel]
    /\ view = [v \in ViewReqs |-> IdleView]
    /\ sweep = IdleSweep
    /\ bulk = IdleBulk

\* the number of requests that have arrived
Arrived ==
    Cardinality({r \in AcceptReqs : accept[r].pc # "idle"})
    + Cardinality({k \in CancelReqs : cancel[k].pc # "idle"})
    + Cardinality({v \in ViewReqs : view[v].pc # "idle"})

\* ---- payment service (Stripe payment intents) ---------------------------
\* A payment intent created with capture_method 'manual' is a hold
\* (requires_capture).  It can be captured or cancelled, never both; a call
\* may also throw without effect.  The service refuses to capture or to cancel
\* an intent that is not in requires_capture: a second capture of a captured
\* hold and a second cancellation of a cancelled hold both throw.

\* outcomes of stripe.paymentIntents.capture on an intent in state st
CaptureOutcomes(st) ==
    IF st = "requires_capture" THEN {"ok", "fail"} ELSE {"fail"}

\* outcomes of stripe.paymentIntents.cancel on an intent in state st
CancelOutcomes(st) ==
    IF st = "requires_capture" THEN {"ok", "fail"} ELSE {"fail"}

\* ---- createOffer ---------------------------------------------------------

\* catch (error) { res.status(500).json({ error: 'Failed to create offer' }) },
\* whatever call has thrown
CreateFailureResponse(err) == "500 Failed to create offer"

\* the request ends in the catch on the failure err
CreateFailed(req, err) ==
    [req EXCEPT !.pc = "done", !.err = err, !.res = CreateFailureResponse(err)]

\* const event = await Event.findById(eventId) and the check of the event
CreateFindEvent(c) ==
    /\ create[c].pc = "idle"
    /\ \E buyer \in Buyers, sections \in SectionLists, terms \in OfferTerms,
          ev \in EventLookups, out \in {"ok", "fail"} :
         LET req == [create[c] EXCEPT !.buyer = buyer, !.sections = sections,
                                      !.maxPrice = terms.maxPrice,
                                      !.quantity = terms.quantity]
         IN  IF out = "fail"
             THEN create' = [create EXCEPT ![c] = CreateFailed(req, "findEvent")]
             ELSE IF ev # "upcoming"
             THEN create' = [create EXCEPT ![c] =
                     [req EXCEPT !.event = ev, !.pc = "done",
                                 !.res = "400 Invalid or past event"]]
             ELSE create' = [create EXCEPT ![c] = [req EXCEPT !.event = ev, !.pc = "price"]]
    /\ UNCHANGED <<offers, docVersion, listings, transactions, intents, accept, cancel, view,
                   background>>

\* await calculateSuggestedPrice(...)
CreatePrice(c) ==
    /\ create[c].pc = "price"
    /\ \E out \in {"ok", "fail"} :
         IF out = "ok"
         THEN create' = [create EXCEPT ![c].pc = "hold"]
         ELSE create' = [create EXCEPT ![c] = CreateFailed(create[c], "pricing")]
    /\ UNCHANGED <<offers, docVersion, listings, transactions, intents, accept, cancel, view,
                   background>>

\* createOffer going on to persist the offer when the hold request has thrown
CreateHold_SaveAnyway(c) ==
    /\ create[c].pc = "hold"
    /\ \E out \in {"ok", "fail"} :
         IF out = "ok"
         THEN /\ intents' = [intents EXCEPT ![c] =
                    [state |-> "requires_capture",
                     amount |-> HoldAmountCents(create[c].maxPrice, create[c].quantity)]]
              /\ create' = [create EXCEPT ![c].pc = "save"]
         ELSE /\ create' = [create EXCEPT ![c].pc = "save", ![c].err = "hold"]
              /\ UNCHANGED intents
    /\ UNCHANGED <<offers, docVersion, listings, transactions, accept, cancel, view, background>>

\* stripe.paymentIntents.create: the hold of maxPrice * quantity
CreateHold(c) ==
    /\ create[c].pc = "hold"
    /\ \E out \in {"ok", "fail"} :
         IF out = "ok"
         THEN /\ intents' = [intents EXCEPT ![c] =
                    [state |-> "requires_capture",
                     amount |-> HoldAmountCents(create[c].maxPrice, create[c].quantity)]]
              /\ create' = [create EXCEPT ![c].pc = "save"]
         ELSE /\ create' = [create EXCEPT ![c] = CreateFailed(create[c], "hold")]
              /\ UNCHANGED intents
    /\ UNCHANGED <<offers, docVersion, listings, transactions, accept, cancel, view, background>>

\* new BuyerOffer({...}); await offer.save()
CreateSave(c) ==
    /\ create[c].pc = "save"
    /\ \E out \in {"ok", "fail"} :
         IF out = "ok"
         THEN /\ offers' = [offers EXCEPT ![c] =
                    NewBuyerOffer(create[c].buyer, create[c].sections,
                                  create[c].maxPrice, create[c].quantity)]
              /\ create' = [create EXCEPT ![c].pc = "hook"]
         ELSE /\ create' = [create EXCEPT ![c] = CreateFailed(create[c], "save")]
              /\ UNCHANGED offers
    /\ UNCHANGED <<docVersion, listings, transactions, intents, accept, cancel, view, background>>

\* await checkForInstantMatch(offer)
CreateHook(c) ==
    /\ create[c].pc = "hook"
    /\ \E out \in {"ok", "fail"} :
         IF out = "ok"
         THEN create' = [create EXCEPT ![c].pc = "populate"]
         ELSE create' = [create EXCEPT ![c] = CreateFailed(create[c], "hook")]
    /\ UNCHANGED <<offers, docVersion, listings, transactions, intents, accept, cancel, view,
                   background>>

\* res.status(201).json({ success: true, offer: await offer.populate('event') })
CreatePopulate(c) ==
    /\ create[c].pc = "populate"
    /\ \E out \in {"ok", "fail"} :
         IF out = "ok"
         THEN create' = [create EXCEPT ![c].pc = "done", ![c].res = "201"]
         ELSE create' = [create EXCEPT ![c] = CreateFailed(create[c], "populate")]
    /\ UNCHANGED <<offers, docVersion, listings, transactions, intents, accept, cancel, view,
                   background>>

\* ---- cancelOffer ---------------------------------------------------------

\* the query without its buyer condition
CancelMatches_AnyRequester(o, requester) ==
    /\ offers[o] # Null
    /\ offers[o].status = "active"

\* BuyerOffer.findOne({_id, buyer, status: 'active'})
CancelMatches(o, requester) ==
    /\ offers[o] # Null
    /\ offers[o].buyer = requester
    /\ offers[o].status = "active"

\* the store holds a document written in an open transaction until it ends
HoldsLock(r, o) ==
    /\ accept[r].txn = "written"
    /\ accept[r].offer = o

\* await BuyerOffer.findOne({...}); if (!offer) return 404
CancelFind(k) ==
    /\ cancel[k].pc = "idle"
    /\ IF k = 1 THEN TRUE ELSE cancel[k - 1].pc # "idle"
    /\ Arrived < MaxRequests
    /\ \E o \in OfferIds, requester \in Users, out \in {"ok", "fail"} :
         LET req == [cancel[k] EXCEPT !.offer = o, !.requester = requester]
         IN  IF out = "fail"
             THEN cancel' = [cancel EXCEPT ![k] =
                     [req EXCEPT !.pc = "done", !.res = "500 Failed to cancel offer"]]
             ELSE IF CancelMatches(o, requester)
             THEN cancel' = [cancel EXCEPT ![k] =
                     [req EXCEPT !.seen = offers[o].status, !.pc = "stripe"]]
             ELSE cancel' = [cancel EXCEPT ![k] =
                     [req EXCEPT !.seen = offers[o].status, !.pc = "done",
                                 !.res = "404 Offer not found"]]
    /\ UNCHANGED <<offers, docVersion, listings, transactions, intents, create, accept, view,
                   background>>

\* cancelOffer going on to save the cancelled offer when the cancel call has thrown
CancelStripe_IgnoringFailure(k) ==
    /\ cancel[k].pc = "stripe"
    /\ LET o == cancel[k].offer
       IN  \E out \in CancelOutcomes(intents[o].state) :
             IF out = "ok"
             THEN /\ intents' = [intents EXCEPT ![o].state = "canceled"]
                  /\ cancel' = [cancel EXCEPT ![k].pc = "save"]
             ELSE /\ cancel' = [cancel EXCEPT ![k].pc = "save"]
                  /\ UNCHANGED intents
    /\ UNCHANGED <<offers, docVersion, listings, transactions, create, accept, view, background>>

\* await stripe.paymentIntents.cancel(...)
CancelStripe(k) ==
    /\ cancel[k].pc = "stripe"
    /\ LET o == cancel[k].offer
       IN  \E out \in CancelOutcomes(intents[o].state) :
             IF out = "ok"
             THEN /\ intents' = [intents EXCEPT ![o].state = "canceled"]
                  /\ cancel' = [cancel EXCEPT ![k].pc = "save"]
             ELSE /\ cancel' = [cancel EXCEPT ![k].pc = "done",
                                              ![k].res = "500 Failed to cancel offer"]
                  /\ UNCHANGED intents
    /\ UNCHANGED <<offers, docVersion, listings, transactions, create, accept, view, background>>

\* offer.status = 'cancelled'; offer.paymentIntent.status = 'cancelled'; await offer.save()
\* The write is outside any transaction: it waits for a transaction that has
\* written the document, and it sets the two modified paths whatever the
\* document's status has become.
CancelSave(k) ==
    /\ cancel[k].pc = "save"
    /\ LET o == cancel[k].offer
       IN  /\ \A r \in AcceptReqs : ~HoldsLock(r, o)
           /\ \E out \in {"ok", "fail"} :
                IF out = "ok"
                THEN /\ offers' = [offers EXCEPT ![o] = CancelledOffer(offers[o])]
                     /\ docVersion' = [docVersion EXCEPT ![o] = @ + 1]
                     /\ cancel' = [cancel EXCEPT ![k].pc = "done", ![k].res = "200"]
                ELSE /\ cancel' = [cancel EXCEPT ![k].pc = "done",
                                                 ![k].res = "500 Failed to cancel offer"]
                     /\ UNCHANGED <<offers, docVersion>>
    /\ UNCHANGED <<listings, transactions, intents, create, accept, view, background>>

\* ---- viewEventOffers -----------------------------------------------------

\* req.user.id of a viewEventOffers request
Viewer(v) == v

\* const offers = await BuyerOffer.find(query): the active offers that the
\* eventId, sections and minPrice of the request select
ViewFind(v) ==
    /\ view[v].pc = "idle"
    /\ IF v = 1 THEN TRUE ELSE view[v - 1].pc # "idle"
    /\ Arrived < MaxRequests
    /\ \E selects \in BOOLEAN, out \in {"ok", "fail"} :
         IF out = "fail"
         THEN view' = [view EXCEPT ![v].pc = "done", ![v].res = "500 Failed to fetch offers"]
         ELSE view' = [view EXCEPT ![v].pc = "update",
                          ![v].found = IF selects
                                       THEN {o \in OfferIds : offers[o].status = "active"}
                                       ELSE {}]
    /\ UNCHANGED <<offers, docVersion, listings, transactions, intents, create, accept, cancel,
                   background>>

\* await BuyerOffer.updateMany({ _id: { $in: ... } }, { $inc, $push }); res.json
\* The write is outside any transaction: it waits for a transaction that has
\* written a document it updates, and it selects the documents by _id only.
ViewUpdate(v) ==
    /\ view[v].pc = "update"
    /\ \A o \in view[v].found : \A r \in AcceptReqs : ~HoldsLock(r, o)
    /\ \E out \in {"ok", "fail"} :
         IF out = "ok"
         THEN /\ offers' = [o \in OfferIds |->
                    IF o \in view[v].found THEN ViewedOffer(offers[o], Viewer(v))
                    ELSE offers[o]]
              /\ docVersion' = [o \in OfferIds |->
                    IF o \in view[v].found THEN docVersion[o] + 1 ELSE docVersion[o]]
              /\ view' = [view EXCEPT ![v].pc = "done", ![v].res = "200"]
         ELSE /\ view' = [view EXCEPT ![v].pc = "done", ![v].res = "500 Failed to fetch offers"]
              /\ UNCHANGED <<offers, docVersion>>
    /\ UNCHANGED <<listings, transactions, intents, create, accept, cancel, background>>

\* ---- acceptOffer ---------------------------------------------------------

\* req.user.id of an acceptOffer request: every request is another seller's
Seller(r) == r

\* if (!offer || offer.status !== 'active')
OfferAvailable(doc) == doc # Null /\ doc.status = "active"

\* the section check left out
SectionWanted_Always(doc, section) == TRUE

\* offer.sections.includes(section)
SectionWanted(doc, section) == section \in doc.sections

\* The store refuses a write in a transaction to a document that another open
\* transaction has written, or that was written after the transaction's
\* snapshot was taken (the snapshot is taken by the transaction's first read).
WriteConflict(r) ==
    LET o == accept[r].offer
    IN  \/ docVersion[o] # accept[r].version
        \/ \E r2 \in AcceptReqs \ {r} : HoldsLock(r2, o)

\* catch (error) {: the inner catch has caught the error, the transaction is
\* to be aborted
AcceptFailed(r, message) ==
    [accept[r] EXCEPT !.pc = "abort", !.err = message]

\* const session = await mongoose.startSession(); session.startTransaction()
\* A throw of startSession is outside the inner try: it goes to the outer catch.
AcceptStart(r) ==
    /\ accept[r].pc = "idle"
    /\ IF r = 1 THEN TRUE ELSE accept[r - 1].pc # "idle"
    /\ Arrived < MaxRequests
    /\ \E o \in OfferIds, section \in Sections, out \in {"ok", "fail"} :
         LET req == [accept[r] EXCEPT !.offer = o, !.section = section]
         IN  IF out = "ok"
             THEN accept' = [accept EXCEPT ![r] = [req EXCEPT !.pc = "read", !.txn = "open"]]
             ELSE accept' = [accept EXCEPT ![r] =
                     [req EXCEPT !.pc = "done", !.res = "500 session error"]]
    /\ UNCHANGED <<offers, docVersion, listings, transactions, intents, create, cancel, view,
                   background>>

\* await BuyerOffer.findById(offerId).session(session) and the two checks on
\* the document read
AcceptRead(r) ==
    /\ accept[r].pc = "read"
    /\ LET o == accept[r].offer
       IN  \E out \in {"ok", "fail"} :
             IF out = "fail"
             THEN accept' = [accept EXCEPT ![r] = AcceptFailed(r, "500 read error")]
             ELSE IF ~OfferAvailable(offers[o])
             THEN accept' = [accept EXCEPT ![r] =
                     [AcceptFailed(r, "500 Offer not available")
                        EXCEPT !.seen = offers[o].status, !.version = docVersion[o]]]
             ELSE IF ~SectionWanted(offers[o], accept[r].section)
             THEN accept' = [accept EXCEPT ![r] =
                     [AcceptFailed(r, "500 Section not in buyer preferences")
                        EXCEPT !.seen = offers[o].status, !.version = docVersion[o]]]
             ELSE accept' = [accept EXCEPT ![r].pc = "saveListing",
                                           ![r].seen = offers[o].status,
                                           ![r].version = docVersion[o]]
    /\ UNCHANGED <<offers, docVersion, listings, transactions, intents, create, cancel, view,
                   background>>

\* new SellerListing({...}); await listing.save({ session })
AcceptSaveListing(r) ==
    /\ accept[r].pc = "saveListing"
    /\ \E out \in {"ok", "fail"} :
         IF out = "ok"
         THEN /\ accept' = [accept EXCEPT ![r].pc = "saveOffer"]
         ELSE /\ accept' = [accept EXCEPT ![r] = AcceptFailed(r, "500 store error")]
    /\ UNCHANGED <<offers, docVersion, listings, transactions, intents, create, cancel, view,
                   background>>

\* offer.status = 'matched'; ...; await offer.save({ session })
AcceptSaveOffer(r) ==
    /\ accept[r].pc = "saveOffer"
    /\ IF WriteConflict(r)
       THEN /\ accept' = [accept EXCEPT ![r] = AcceptFailed(r, "500 WriteConflict")]
       ELSE \E out \in {"ok", "fail"} :
              IF out = "ok"
              THEN /\ accept' = [accept EXCEPT ![r].pc = "saveTransaction",
                                               ![r].txn = "written"]
              ELSE /\ accept' = [accept EXCEPT ![r] = AcceptFailed(r, "500 store error")]
    /\ UNCHANGED <<offers, docVersion, listings, transactions, intents, create, cancel, view,
                   background>>

\* new Transaction({...}); await transaction.save({ session })
AcceptSaveTransaction(r) ==
    /\ accept[r].pc = "saveTransaction"
    /\ \E out \in {"ok", "fail"} :
         IF out = "ok"
         THEN /\ accept' = [accept EXCEPT ![r].pc = "capture"]
         ELSE /\ accept' = [accept EXCEPT ![r] = AcceptFailed(r, "500 store error")]
    /\ UNCHANGED <<offers, docVersion, listings, transactions, intents, create, cancel, view,
                   background>>

\* acceptOffer going on to commit when the capture call has thrown
AcceptCapture_IgnoringFailure(r) ==
    /\ accept[r].pc = "capture"
    /\ LET o == accept[r].offer
       IN  \E out \in CaptureOutcomes(intents[o].state) :
             IF out = "ok"
             THEN /\ intents' = [intents EXCEPT ![o].state = "succeeded"]
                  /\ accept' = [accept EXCEPT ![r].pc = "commit"]
             ELSE /\ accept' = [accept EXCEPT ![r].pc = "commit"]
                  /\ UNCHANGED intents
    /\ UNCHANGED <<offers, docVersion, listings, transactions, create, cancel, view, background>>

\* await stripe.paymentIntents.capture(...), inside the open transaction
AcceptCapture(r) ==
    /\ accept[r].pc = "capture"
    /\ LET o == accept[r].offer
       IN  \E out \in CaptureOutcomes(intents[o].state) :
             IF out = "ok"
             THEN /\ intents' = [intents EXCEPT ![o].state = "succeeded"]
                  /\ accept' = [accept EXCEPT ![r].pc = "commit"]
             ELSE /\ accept' = [accept EXCEPT ![r] = AcceptFailed(r, "500 capture error")]
                  /\ UNCHANGED intents
    /\ UNCHANGED <<offers, docVersion, listings, transactions, create, cancel, view, background>>

\* a commit that makes the listing and the matched offer visible, but not the
\* Transaction
AcceptCommit_WithoutTransaction(r) ==
    /\ accept[r].pc = "commit"
    /\ LET o == accept[r].offer
       IN  \E out \in {"ok", "fail", "unknown"} :
             /\ IF out \in {"ok", "unknown"}
                THEN /\ listings' = listings \cup
                           {NewListing(r, Seller(r), accept[r].section, offers[o])}
                     /\ offers' = [offers EXCEPT ![o] = MatchedOffer(offers[o], r)]
                     /\ docVersion' = [docVersion EXCEPT ![o] = @ + 1]
                     /\ UNCHANGED transactions
                ELSE UNCHANGED <<offers, docVersion, listings, transactions>>
             /\ IF out = "ok"
                THEN accept' = [accept EXCEPT ![r].pc = "notify", ![r].txn = "ended"]
                ELSE accept' = [accept EXCEPT ![r] =
                        [AcceptFailed(r, "500 commit error") EXCEPT !.txn = "ended"]]
    /\ UNCHANGED <<intents, create, cancel, view, background>>

\* await session.commitTransaction(): the three buffered writes become visible
\* and the call returns (ok), or the call throws.  A throwing commit has either
\* discarded the writes (fail) or applied them before the error reached the
\* driver (unknown: the store reports a commit error with unknown result).
\* Either way the session counts the transaction as committed from here on.
AcceptCommit(r) ==
    /\ accept[r].pc = "commit"
    /\ LET o == accept[r].offer
       IN  \E out \in {"ok", "fail", "unknown"} :
             /\ IF out \in {"ok", "unknown"}
                THEN /\ listings' = listings \cup
                           {NewListing(r, Seller(r), accept[r].section, offers[o])}
                     /\ offers' = [offers EXCEPT ![o] = MatchedOffer(offers[o], r)]
                     /\ docVersion' = [docVersion EXCEPT ![o] = @ + 1]
                     /\ transactions' = transactions \cup
                           {NewTransaction(r, o, Seller(r), accept[r].section, offers[o])}
                ELSE UNCHANGED <<offers, docVersion, listings, transactions>>
             /\ IF out = "ok"
                THEN accept' = [accept EXCEPT ![r].pc = "notify", ![r].txn = "ended"]
                ELSE accept' = [accept EXCEPT ![r] =
                        [AcceptFailed(r, "500 commit error") EXCEPT !.txn = "ended"]]
    /\ UNCHANGED <<intents, create, cancel, view, background>>

\* await notifyMatch(transaction).  A throw of notifyMatch reaches the same
\* catch as every other failure.
AcceptNotify(r) ==
    /\ accept[r].pc = "notify"
    /\ \E out \in {"ok", "fail"} :
         IF out = "ok"
         THEN accept' = [accept EXCEPT ![r].pc = "populate"]
         ELSE accept' = [accept EXCEPT ![r] = AcceptFailed(r, "500 notify error")]
    /\ UNCHANGED <<offers, docVersion, listings, transactions, intents, create, cancel, view,
                   background>>

\* res.json({ success: true, transaction: await transaction.populate('event buyer') })
AcceptPopulate(r) ==
    /\ accept[r].pc = "populate"
    /\ \E out \in {"ok", "fail"} :
         IF out = "ok"
         THEN accept' = [accept EXCEPT ![r].pc = "done", ![r].res = "200",
                                       ![r].version = 0]
         ELSE accept' = [accept EXCEPT ![r] = AcceptFailed(r, "500 populate error")]
    /\ UNCHANGED <<offers, docVersion, listings, transactions, intents, create, cancel, view,
                   background>>

\* outcomes of session.abortTransaction() on a transaction in state txn: after
\* commitTransaction was called the session refuses to abort
AbortOutcomes(txn) == IF txn = "ended" THEN {"fail"} ELSE {"ok", "fail"}

\* await session.abortTransaction(); throw error; finally session.endSession();
\* and the outer catch: res.status(500).json({ error: error.message }).
\* The error answered is the one caught, or that of abortTransaction when it
\* throws; the session ended, the store discards what the transaction wrote.
AcceptAbort(r) ==
    /\ accept[r].pc = "abort"
    /\ \E out \in AbortOutcomes(accept[r].txn) :
         accept' = [accept EXCEPT ![r].pc = "done",
                                  ![r].txn = "ended",
                                  ![r].version = 0,
                                  ![r].res = IF out = "ok" THEN accept[r].err
                                             ELSE "500 abort error"]
    /\ UNCHANGED <<offers, docVersion, listings, transactions, intents, create, cancel, view,
                   background>>

\* ---- specification -------------------------------------------------------
Next ==
    \/ \E c \in OfferIds : CreateFindEvent(c)
    \/ \E c \in OfferIds : CreatePrice(c)
    \/ \E c \in OfferIds : CreateHold(c)
    \/ \E c \in OfferIds : CreateSave(c)
    \/ \E c \in OfferIds : CreateHook(c)
    \/ \E c \in OfferIds : CreatePopulate(c)
    \/ \E k \in CancelReqs : CancelFind(k)
    \/ \E k \in CancelReqs : CancelStripe(k)
    \/ \E k \in CancelReqs : CancelSave(k)
    \/ \E v \in ViewReqs : ViewFind(v)
    \/ \E v \in ViewReqs : ViewUpdate(v)
    \/ \E r \in AcceptReqs : AcceptStart(r)
    \/ \E r \in AcceptReqs : AcceptRead(r)
    \/ \E r \in AcceptReqs : AcceptSaveListing(r)
    \/ \E r \in AcceptReqs : AcceptSaveOffer(r)
    \/ \E r \in AcceptReqs : AcceptSaveTransaction(r)
    \/ \E r \in AcceptReqs : AcceptCapture(r)
    \/ \E r \in AcceptReqs : AcceptCommit(r)
    \/ \E r \in AcceptReqs : AcceptNotify(r)
    \/ \E r \in AcceptReqs : AcceptPopulate(r)
    \/ \E r \in AcceptReqs : AcceptAbort(r)

Spec == Init /\ [][Next]_vars

\* ---- settlement amounts --------------------------------------------------
\* The amounts of a Transaction depend on the offer's maxPrice only.  This
\* specification starts from a persisted active offer of any price up to
\* MaxFeePrice and runs one acceptOffer request on it, step by step.
InitFee ==
    /\ \E maxPrice \in FeePrices, quantity \in FeeQuantities :
         /\ offers = [o \in OfferIds |-> NewBuyerOffer("u1", {"A"}, maxPrice, quantity)]
         /\ intents = [o \in OfferIds |->
                [state |-> "requires_capture",
                 amount |-> HoldAmountCents(maxPrice, quantity)]]
         /\ create = [c \in OfferIds |->
                [IdleCreate EXCEPT !.pc = "done", !.res = "201", !.event = "upcoming",
                                   !.maxPrice = maxPrice, !.quantity = quantity]]
    /\ docVersion = [o \in OfferIds |-> 0]
    /\ listings = {}
    /\ transactions = {}
    /\ accept = [r \in AcceptReqs |-> IdleAccept]
    /\ cancel = [k \in CancelReqs |-> IdleCancel]
    /\ view = [v \in ViewReqs |-> IdleView]
    /\ sweep = IdleSweep
    /\ bulk = IdleBulk

NextFee ==
    \/ AcceptStart(1)
    \/ AcceptRead(1)
    \/ AcceptSaveListing(1)
    \/ AcceptSaveOffer(1)
    \/ AcceptSaveTransaction(1)
    \/ AcceptCapture(1)
    \/ AcceptCommit(1)
    \/ AcceptNotify(1)
    \/ AcceptPopulate(1)
    \/ AcceptAbort(1)

SpecFee == InitFee /\ [][NextFee]_vars

\* ---- bulkUpload ----------------------------------------------------------
\* Promise.all(listings.map(async (listing) => ...)) starts the save of every
\* listing at once; the saves end in any order.  Promise.all rejects on the
\* first save that throws and resolves when every save has ended well; the
\* saves still running when it rejects go on.

\* new SellerListing({...listing, seller, status, isLive}); the index is the _id
NewBulkListing(i, goLiveAt) ==
    [id |-> i,
     seller |-> "u1",
     status |-> IF goLiveAt THEN "draft" ELSE "active",
     isLive |-> ~goLiveAt]

\* res.json({ success: true, created: createdListings.length, ... })
BulkSuccess(n) == [code |-> "200", created |-> n]

\* res.status(500).json({ error: 'Bulk upload failed' })
BulkFailure == [code |-> "500", error |-> "Bulk upload failed"]

\* const { listings } = req.body; every callback of listings.map runs up to its save
BulkStart ==
    /\ bulk.pc = "idle"
    /\ \E n \in 0..MaxBulkItems :
         \E goLive \in [1..n -> BOOLEAN] :
            bulk' = [pc |-> IF n = 0 THEN "done" ELSE "saving",
                     res |-> IF n = 0 THEN BulkSuccess(0) ELSE NoResponse,
                     items |-> [i \in 1..n |-> [goLiveAt |-> goLive[i], save |-> "pending"]]]
    /\ UNCHANGED <<offers, docVersion, listings, transactions, intents, create, accept,
                   cancel, view, sweep>>

\* return await newListing.save() of listing i, and what Promise.all makes of it
BulkSave(i) ==
    /\ bulk.pc = "saving"
    /\ i \in DOMAIN bulk.items
    /\ bulk.items[i].save = "pending"
    /\ \E out \in {"saved", "failed"} :
         LET items == [bulk.items EXCEPT ![i].save = out]
             settled == \A j \in DOMAIN items : items[j].save # "pending"
             res == IF bulk.res # NoResponse THEN bulk.res
                    ELSE IF out = "failed" THEN BulkFailure
                    ELSE IF \A j \in DOMAIN items : items[j].save = "saved"
                    THEN BulkSuccess(Len(items))
                    ELSE NoResponse
         IN  /\ bulk' = [pc |-> IF settled THEN "done" ELSE "saving",
                         res |-> res, items |-> items]
             /\ listings' = IF out = "saved"
                            THEN listings \cup {NewBulkListing(i, bulk.items[i].goLiveAt)}
                            ELSE listings
    /\ UNCHANGED <<offers, docVersion, transactions, intents, create, accept, cancel, view, sweep>>

NextBulk ==
    \/ BulkStart
    \/ \E i \in 1..MaxBulkItems : BulkSave(i)

SpecBulk == Init /\ [][NextBulk]_vars

\* ---- expireSweep --------------------------------------------------------
\* The periodic background operation of the Offer Lifecycle Manager: for
\* every active offer whose expiresAt has passed, attempt the cancellation of
\* the hold and transition the offer to expired; an offer whose hold could
\* not be cancelled stays active and is taken up again by the next sweep.
\* sweep.due is the set of offers whose expiresAt has passed, sweep.todo the
\* offers the running sweep has still to visit, sweep.failed and
\* sweep.expired what the running sweep did so far.

SweepOfferIds == 1..MaxSweepOffers

\* an offer as createOffer stores it, with its hold
SweepActiveOffer == NewBuyerOffer("u1", {"A"}, 100, 2)

SweepHold == [state |-> "requires_capture", amount |-> HoldAmountCents(100, 2)]

\* status = expired, hold cancelled
ExpiredOffer(doc) ==
    [doc EXCEPT !.status = "expired", !.holdStatus = "cancelled"]

\* the store holds offers that are active, cancelled by cancelOffer or
\* matched by acceptOffer, each with the payment intent that goes with it
InitSweep ==
    /\ \E st \in [SweepOfferIds -> {"active", "cancelled", "matched"}] :
         /\ offers = [o \in SweepOfferIds |->
                        CASE st[o] = "active" -> SweepActiveOffer
                          [] st[o] = "cancelled" -> CancelledOffer(SweepActiveOffer)
                          [] st[o] = "matched" -> MatchedOffer(SweepActiveOffer, 1)]
         /\ intents = [o \in SweepOfferIds |->
                        [SweepHold EXCEPT !.state =
                            CASE st[o] = "active" -> "requires_capture"
                              [] st[o] = "cancelled" -> "canceled"
                              [] st[o] = "matched" -> "succeeded"]]
    /\ docVersion = [o \in SweepOfferIds |-> 0]
    /\ listings = {}
    /\ transactions = {}
    /\ create = [c \in OfferIds |-> IdleCreate]
    /\ accept = [r \in AcceptReqs |-> IdleAccept]
    /\ cancel = [k \in CancelReqs |-> IdleCancel]
    /\ view = [v \in ViewReqs |-> IdleView]
    /\ sweep = IdleSweep
    /\ bulk = IdleBulk

\* the clock passes the expiresAt of offer o
ExpiryPasses(o) ==
    /\ o \notin sweep.due
    /\ sweep' = [sweep EXCEPT !.due = @ \cup {o}]
    /\ UNCHANGED <<offers, docVersion, listings, transactions, intents, create, accept,
                   cancel, view, bulk>>

\* a sweep begins: it finds every active offer whose expiresAt has passed
SweepStart ==
    /\ sweep.pc = "idle"
    /\ sweep' = [sweep EXCEPT !.pc = "running",
                              !.todo = {o \in sweep.due : offers[o].status = "active"},
                              !.failed = {},
                              !.expired = {}]
    /\ UNCHANGED <<offers, docVersion, listings, transactions, intents, create, accept,
                   cancel, view, bulk>>

\* the payment service accepts the cancellation of the hold of o: o expires.
\* The write is outside any transaction and waits while an open transaction
\* holds the document.
SweepExpire(o) ==
    /\ sweep.pc = "running"
    /\ o \in sweep.todo
    /\ "ok" \in CancelOutcomes(intents[o].state)
    /\ \A r \in AcceptReqs : ~HoldsLock(r, o)
    /\ intents' = [intents EXCEPT ![o].state = "canceled"]
    /\ offers' = [offers EXCEPT ![o] = ExpiredOffer(@)]
    /\ docVersion' = [docVersion EXCEPT ![o] = @ + 1]
    /\ sweep' = [sweep EXCEPT !.todo = @ \ {o}, !.expired = @ \cup {o}]
    /\ UNCHANGED <<listings, transactions, create, accept, cancel, view, bulk>>

SweepCancelFails_AbortsSweep(o) ==
    /\ sweep.pc = "running"
    /\ o \in sweep.todo
    /\ "fail" \in CancelOutcomes(intents[o].state)
    /\ sweep' = [sweep EXCEPT !.todo = {}, !.failed = @ \cup {o}]
    /\ UNCHANGED <<offers, docVersion, listings, transactions, intents, create, accept,
                   cancel, view, bulk>>

\* the cancellation of the hold of o fails: o stays active for the next
\* sweep, and the sweep goes on with the other offers
SweepCancelFails(o) ==
    /\ sweep.pc = "running"
    /\ o \in sweep.todo
    /\ "fail" \in CancelOutcomes(intents[o].state)
    /\ sweep' = [sweep EXCEPT !.todo = @ \ {o}, !.failed = @ \cup {o}]
    /\ UNCHANGED <<offers, docVersion, listings, transactions, intents, create, accept,
                   cancel, view, bulk>>

\* the sweep has visited every offer it found; the next one starts later
SweepEnd ==
    /\ sweep.pc = "running"
    /\ sweep.todo = {}
    /\ sweep' = [sweep EXCEPT !.pc = "idle"]
    /\ UNCHANGED <<offers, docVersion, listings, transactions, intents, create, accept,
                   cancel, view, bulk>>

NextSweep ==
    \/ \E o \in SweepOfferIds : ExpiryPasses(o)
    \/ SweepStart
    \/ \E o \in SweepOfferIds : SweepExpire(o)
    \/ \E o \in SweepOfferIds : SweepCancelFails(o)
    \/ SweepEnd

\* The sweep is periodic and visits every offer it found (weak fairness);
\* the payment service eventually accepts a cancellation that is tried again
\* and again (strong fairness of SweepExpire).
SweepFairness ==
    /\ WF_vars(SweepStart)
    /\ WF_vars(SweepEnd)
    /\ \A o \in SweepOfferIds : WF_vars(SweepExpire(o) \/ SweepCancelFails(o))
    /\ \A o \in SweepOfferIds : SF_vars(SweepExpire(o))

SpecSweep == InitSweep /\ [][NextSweep]_vars /\ SweepFairness

\* ---- offer lifecycle ------------------------------------------------------
\* The three operations that write the status of an offer, running together:
\* acceptOffer, cancelOffer and the expiry sweep, with viewEventOffers, on an
\* offer that createOffer has stored.

\* createOffer has stored the offer with its hold and answered 201
InitLifecycle ==
    /\ offers = [o \in OfferIds |-> SweepActiveOffer]
    /\ intents = [o \in OfferIds |-> SweepHold]
    /\ create = [c \in OfferIds |->
           [IdleCreate EXCEPT !.pc = "done", !.res = "201", !.event = "upcoming",
                              !.maxPrice = 100, !.quantity = 2]]
    /\ docVersion = [o \in OfferIds |-> 0]
    /\ listings = {}
    /\ transactions = {}
    /\ accept = [r \in AcceptReqs |-> IdleAccept]
    /\ cancel = [k \in CancelReqs |-> IdleCancel]
    /\ view = [v \in ViewReqs |-> IdleView]
    /\ sweep = IdleSweep
    /\ bulk = IdleBulk

NextLifecycle ==
    \/ \E k \in CancelReqs : CancelFind(k)
    \/ \E k \in CancelReqs : CancelStripe(k)
    \/ \E k \in CancelReqs : CancelSave(k)
    \/ \E v \in ViewReqs : ViewFind(v)
    \/ \E v \in ViewReqs : ViewUpdate(v)
    \/ \E r \in AcceptReqs : AcceptStart(r)
    \/ \E r \in AcceptReqs : AcceptRead(r)
    \/ \E r \in AcceptReqs : AcceptSaveListing(r)
    \/ \E r \in AcceptReqs : AcceptSaveOffer(r)
    \/ \E r \in AcceptReqs : AcceptSaveTransaction(r)
    \/ \E r \in AcceptReqs : AcceptCapture(r)
    \/ \E r \in AcceptReqs : AcceptCommit(r)
    \/ \E r \in AcceptReqs : AcceptNotify(r)
    \/ \E r \in AcceptReqs : AcceptPopulate(r)
    \/ \E r \in AcceptReqs : AcceptAbort(r)
    \/ \E o \in OfferIds : ExpiryPasses(o)
    \/ SweepStart
    \/ \E o \in OfferIds : SweepExpire(o)
    \/ \E o \in OfferIds : SweepCancelFails(o)
    \/ SweepEnd

SpecLifecycle == InitLifecycle /\ [][NextLifecycle]_vars

\* ---- properties ----------------------------------------------------------
TransactionsOf(o) == {t \in transactions : t.buyerOffer = o}
AcceptsOf(o) == {r \in AcceptReqs : accept[r].pc # "idle" /\ accept[r].offer = o}
\* the responses to a failure of the store, the payment service or the notifier
AcceptFaultResults ==
    {"500 session error", "500 read error", "500 store error", "500 commit error", "500 capture error",
     "500 notify error", "500 populate error", "500 abort error"}
Quiescent ==
    /\ \A c \in OfferIds : create[c].pc \in {"idle", "done"}
    /\ \A r \in AcceptReqs : accept[r].pc \in {"idle", "done"}
    /\ \A k \in CancelReqs : cancel[k].pc \in {"idle", "done"}
    /\ \A v \in ViewReqs : view[v].pc \in {"idle", "done"}

\* C1: at every moment at most one committed Transaction references an offer,
\* and exactly one does whenever the offer's committed status is matched.
C1_OneTransactionPerOffer ==
    \A o \in OfferIds :
        /\ Cardinality(TransactionsOf(o)) <= 1
        /\ offers[o].status = "matched" => Cardinality(TransactionsOf(o)) = 1

\* an offer is matched by one request while another request that also read it
\* as active has failed
C1_Witness ==
    \E o \in OfferIds, r1, r2 \in AcceptReqs :
        /\ r1 # r2
        /\ offers[o].status = "matched"
        /\ accept[r1].offer = o /\ accept[r1].res = "200"
        /\ accept[r2].offer = o /\ accept[r2].pc = "done" /\ accept[r2].seen = "active"
        /\ accept[r2].res # "200"

\* C2: when N >= 2 acceptOffer calls have each read the same offer as active,
\* each for a section the offer wants, and neither the store nor the payment
\* service nor the notifier has failed them and no cancelOffer and no
\* viewEventOffers has run, then exactly one call succeeded and every other one failed with
\* 'Offer not available'.
C2_LosersGetOfferNotAvailable ==
    \A o \in OfferIds :
        LET calls == {r \in AcceptsOf(o) : accept[r].seen = "active"}
        IN  ( /\ Cardinality(calls) >= 2
              /\ \A r \in calls : /\ accept[r].pc = "done"
                                  /\ accept[r].section \in offers[o].sections
                                  /\ accept[r].res \notin AcceptFaultResults
              /\ \A k \in CancelReqs : cancel[k].pc = "idle"
              /\ \A v \in ViewReqs : view[v].pc = "idle" )
            => /\ Cardinality({r \in calls : accept[r].res = "200"}) = 1
               /\ \A r \in calls :
                    accept[r].res # "200" => accept[r].res = "500 Offer not available"

\* C3: a request that is about to ask the payment service for the capture has
\* its settlement (listing, matched offer, transaction) committed already.
C3_CaptureAfterCommit ==
    \A r \in AcceptReqs :
        accept[r].pc = "capture" =>
            /\ \E t \in transactions : t.id = r
            /\ offers[accept[r].offer].status = "matched"

\* C4: after an acceptOffer call whose capture failed, its listing and its
\* transaction are in the store, the offer is matched and the offer's
\* hold-state is capture-failed.
C4_CaptureFailureKeepsSettlement ==
    \A r \in AcceptReqs :
        (accept[r].pc = "done" /\ accept[r].err = "500 capture error") =>
            /\ \E l \in listings : l.id = r
            /\ \E t \in transactions : t.id = r
            /\ offers[accept[r].offer].status = "matched"
            /\ offers[accept[r].offer].holdStatus = "capture-failed"

\* C5: the committed status and the recorded hold-state of every offer agree:
\* matched => captured, cancelled or expired => cancelled, active => authorized.
C5_StatusMatchesHoldState ==
    \A o \in OfferIds :
        offers[o] # Null =>
            /\ offers[o].status = "matched" => offers[o].holdStatus = "captured"
            /\ offers[o].status \in {"cancelled", "expired"} =>
                   offers[o].holdStatus = "cancelled"
            /\ offers[o].status = "active" => offers[o].holdStatus = "authorized"

TerminalStatuses == {"matched", "cancelled", "expired", "error"}

\* C6: once the committed status of an offer is matched, cancelled, expired or
\* error, no step of acceptOffer, cancelOffer, viewEventOffers or the expiry
\* sweep changes it, however the requests and the sweep interleave.
C6_TerminalStatusesStay ==
    [][\A o \in OfferIds :
          offers[o].status \in TerminalStatuses => offers'[o].status = offers[o].status]_vars

\* the sweep has expired the offer, and a cancelOffer and an acceptOffer that
\* had both found it active have ended without changing it
C6_Witness ==
    \E o \in OfferIds, k \in CancelReqs, r \in AcceptReqs :
        /\ offers[o].status = "expired"
        /\ o \in sweep.expired
        /\ cancel[k].offer = o
        /\ cancel[k].seen = "active"
        /\ cancel[k].res = "500 Failed to cancel offer"
        /\ accept[r].offer = o
        /\ accept[r].seen = "active"
        /\ accept[r].pc = "done"

\* C7: an offer is persisted only after its hold was granted, and a createOffer
\* whose hold request failed has persisted no offer.
C7_HoldBeforePersist ==
    \A c \in OfferIds :
        /\ offers[c] # Null => intents[c].state # "none"
        /\ offers[c] # Null => create[c].pc \in {"hook", "populate", "done"} /\ create[c].err # "hold"
        /\ create[c].err = "hold" => offers[c] = Null /\ intents[c].state = "none"

\* a createOffer has ended on a failed hold request
C7_Witness ==
    \E c \in OfferIds :
        create[c].pc = "done" /\ create[c].err = "hold" /\ offers[c] = Null

\* C8: an offer goes from active to cancelled only when the payment service has
\* cancelled its hold; the step on which the hold cancellation fails leaves the
\* offer as it is (an active offer stays active and authorized) and answers the
\* caller with an error.
C8_CancelNeedsHoldCancelled ==
    [][/\ \A o \in OfferIds :
            (offers[o].status = "active" /\ offers'[o].status = "cancelled")
                => intents[o].state = "canceled"
       /\ \A k \in CancelReqs :
            (cancel[k].pc = "stripe" /\ cancel'[k].pc = "done")
                => /\ cancel'[k].res = "500 Failed to cancel offer"
                   /\ offers' = offers
                   /\ intents' = intents]_vars

\* a cancelOffer has failed on the hold cancellation and the offer is still
\* active with its hold authorized
C8_Witness ==
    \E o \in OfferIds, k \in CancelReqs :
        /\ cancel[k].offer = o
        /\ cancel[k].seen = "active"
        /\ cancel[k].res = "500 Failed to cancel offer"
        /\ offers[o].status = "active"
        /\ offers[o].holdStatus = "authorized"
        /\ intents[o].state = "requires_capture"

\* C9: once every request has ended, a hold that the payment service has
\* captured belongs to an offer whose committed status is matched.
C9_CapturedOnlyIfMatched ==
    Quiescent =>
        \A o \in OfferIds :
            intents[o].state = "succeeded" => offers[o].status = "matched"

AcceptWriteFailures == {"500 store error", "500 commit error", "500 WriteConflict"}

\* C10: for every acceptOffer of which a write of the settlement or the commit
\* has failed, no listing and no transaction of that attempt is in the store
\* and the committed status of the offer is still active (stated for the runs
\* in which no cancelOffer has arrived, which could have cancelled the offer).
C10_FailedSettlementLeavesNothing ==
    \A r \in AcceptReqs :
        (accept[r].err \in AcceptWriteFailures /\ \A k \in CancelReqs : cancel[k].pc = "idle") =>
            /\ \A l \in listings : l.id # r
            /\ \A t \in transactions : t.id # r
            /\ offers[accept[r].offer].status = "active"

\* C11: every Transaction has salePrice equal to the offer's maxPrice,
\* sellerFee equal to salePrice times the fee rate, sellerPayout equal to
\* salePrice minus sellerFee, and sellerFee + sellerPayout equal to salePrice.
C11_FeeLaw ==
    \A t \in transactions :
        /\ t.salePrice = offers[t.buyerOffer].maxPrice
        /\ t.sellerFee = Times(t.salePrice, FeeRate)
        /\ t.sellerPayout = Minus(DoubleOfInt(t.salePrice), t.sellerFee)
        /\ Plus(t.sellerFee, t.sellerPayout) = DoubleOfInt(t.salePrice)

\* C12: the held amount recorded in an offer is maxPrice * quantity, and it is
\* the amount of the hold requested from the payment service (there in cents);
\* no step changes the maxPrice, the quantity or the held amount of an active
\* offer.
C12_HeldAmount ==
    /\ [](\A o \in OfferIds :
            offers[o] # Null =>
                /\ offers[o].holdAmount = offers[o].maxPrice * offers[o].quantity
                /\ intents[o].amount = 100 * offers[o].holdAmount)
    /\ [][\A o \in OfferIds :
            offers[o].status = "active" =>
                /\ offers'[o].maxPrice = offers[o].maxPrice
                /\ offers'[o].quantity = offers[o].quantity
                /\ offers'[o].holdAmount = offers[o].holdAmount]_vars

\* an active offer for two tickets, on which an acceptOffer has run and failed
C12_Witness ==
    \E o \in OfferIds, r \in AcceptReqs :
        /\ offers[o].status = "active"
        /\ offers[o].quantity = 2
        /\ offers[o].holdAmount = 200
        /\ accept[r].offer = o /\ accept[r].seen = "active" /\ accept[r].pc = "done"

\* C13: an acceptOffer whose settlement is committed and whose payment is
\* captured answers with the success response, also when notifyMatch fails.
C13_NotifierFailureNotFatal ==
    \A r \in AcceptReqs :
        (accept[r].pc = "done" /\ \E t \in transactions : t.id = r)
            => accept[r].res = "200"

\* C14: a createOffer whose Instant-Match hook has failed leaves the offer
\* persisted and active with its hold, and answers the buyer with the created
\* offer.
C14_HookFailureNotFatal ==
    \A c \in OfferIds :
        create[c].err = "hook" =>
            /\ offers[c] # Null
            /\ intents[c].state # "none"
            /\ create[c].res = "201"

AcceptValidationFailures ==
    {"500 Offer not available", "500 Section not in buyer preferences"}

\* a request that has read an offer that is missing or not active, or that
\* names a section the offer does not want, is stopped by the validation and
\* nothing of it is in the store
RejectedAcceptDidNothing ==
    \A r \in AcceptReqs :
        LET o == accept[r].offer
        IN  ( /\ accept[r].seen # "none"
              /\ \/ accept[r].seen # "active"
                 \/ (offers[o] # Null /\ accept[r].section \notin offers[o].sections) )
            => /\ accept[r].pc \in {"abort", "done"}
               /\ accept[r].err \in AcceptValidationFailures
               /\ accept[r].res # "200"
               /\ \A l \in listings : l.id # r
               /\ \A t \in transactions : t.id # r

\* a createOffer for a missing or non-upcoming event has ended with 400, no
\* hold requested and no offer persisted
RejectedCreateDidNothing ==
    \A c \in OfferIds :
        create[c].event \in {"missing", "completed"}
            => /\ create[c].pc = "done"
               /\ create[c].res = "400 Invalid or past event"
               /\ offers[c] = Null
               /\ intents[c].state = "none"

\* no step of a request up to its rejection, and no step that ends a
\* rejected request, changes the store or the payment service
RejectionChangesNothing ==
    /\ \A r \in AcceptReqs :
         ( /\ accept'[r] # accept[r]
           /\ \/ accept[r].pc \in {"idle", "read"}
              \/ accept[r].err \in AcceptValidationFailures )
            => <<offers, docVersion, listings, transactions, intents>>' =
               <<offers, docVersion, listings, transactions, intents>>
    /\ \A c \in OfferIds :
         (create[c].pc = "idle" /\ create'[c].pc = "done")
            => <<offers, docVersion, listings, transactions, intents>>' =
               <<offers, docVersion, listings, transactions, intents>>

\* C15: an acceptOffer that fails validation (offer missing, not active, or
\* section not wanted) creates no listing and no transaction, leaves the offer
\* as it is and sends no capture request; a createOffer for a missing or
\* non-upcoming event requests no hold and persists no offer.
C15_RejectedRequestsHaveNoEffect ==
    /\ [](RejectedAcceptDidNothing /\ RejectedCreateDidNothing)
    /\ [][RejectionChangesNothing]_vars

\* an acceptOffer for a section the active offer does not want has been
\* rejected, and the offer is as it was created
C15_Witness ==
    \E o \in OfferIds, r \in AcceptReqs :
        /\ accept[r].offer = o
        /\ accept[r].pc = "done"
        /\ accept[r].err = "500 Section not in buyer preferences"
        /\ offers[o].status = "active"
        /\ intents[o].state = "requires_capture"
        /\ listings = {} /\ transactions = {}

\* C16: cancelOffer goes on to the payment service only for an offer that
\* exists, belongs to the requester and is active; otherwise it fails on the
\* spot (404, or 500 when the lookup throws), sends no cancel request and
\* leaves the offer and its hold as they are.  A cancelOffer that succeeded
\* was the offer's buyer's.
C16_CancelPreconditions ==
    /\ [](\A k \in CancelReqs :
            cancel[k].res = "200" =>
                /\ offers[cancel[k].offer] # Null
                /\ offers[cancel[k].offer].buyer = cancel[k].requester
                /\ cancel[k].seen = "active")
    /\ [][\A k \in CancelReqs :
            (cancel[k].pc = "idle" /\ cancel'[k].pc # "idle") =>
                LET o == cancel'[k].offer
                IN  IF /\ offers[o] # Null
                       /\ offers[o].buyer = cancel'[k].requester
                       /\ offers[o].status = "active"
                    THEN \/ cancel'[k].pc = "stripe"
                         \/ /\ cancel'[k].pc = "done"
                            /\ cancel'[k].res = "500 Failed to cancel offer"
                            /\ offers' = offers
                            /\ intents' = intents
                    ELSE /\ cancel'[k].pc = "done"
                         /\ cancel'[k].res \in {"404 Offer not found",
                                                "500 Failed to cancel offer"}
                         /\ offers' = offers
                         /\ intents' = intents]_vars

\* the buyer's cancelOffer on the offer already matched has been answered 404,
\* and the offer is still matched with its hold captured
C16_Witness ==
    \E o \in OfferIds, k \in CancelReqs :
        /\ cancel[k].offer = o
        /\ cancel[k].seen = "matched"
        /\ cancel[k].requester = offers[o].buyer
        /\ cancel[k].res = "404 Offer not found"
        /\ offers[o].status = "matched"
        /\ intents[o].state = "succeeded"

CreateFailureCauses == {"findEvent", "pricing", "hold", "save", "hook", "populate"}

\* C18: the response to a failed hold in createOffer differs from the response
\* to every other failure of createOffer, and the response to a failed capture
\* in acceptOffer differs from those to validation and store failures.
C18_DistinctErrorKinds ==
    /\ \A c \in OfferIds :
         create[c].err = "hold" =>
            \A other \in CreateFailureCauses \ {"hold"} :
                create[c].res # CreateFailureResponse(other)
    /\ \A r \in AcceptReqs :
         (accept[r].pc = "done" /\ accept[r].err = "500 capture error") =>
            accept[r].res \notin (AcceptValidationFailures \cup AcceptWriteFailures
                                      \cup {"500 abort error"})

\* C20: the hold of an offer is never cancelled at the payment service while
\* a Transaction of the offer is committed, nor captured while the offer's
\* committed status is cancelled; a cancelOffer and an acceptOffer on one
\* offer never both succeed.
C20_CancelOrAcceptNotBoth ==
    \A o \in OfferIds :
        /\ ~(intents[o].state = "canceled" /\ TransactionsOf(o) # {})
        /\ ~(intents[o].state = "succeeded" /\ offers[o].status = "cancelled")
        /\ ~(\E k \in CancelReqs, r \in AcceptReqs :
                /\ cancel[k].offer = o /\ cancel[k].res = "200"
                /\ accept[r].offer = o /\ accept[r].res = "200")

\* a cancelOffer and an acceptOffer had both read the offer as active; the
\* cancelOffer has succeeded and the acceptOffer has failed at the capture
C20_Witness ==
    \E o \in OfferIds, k \in CancelReqs, r \in AcceptReqs :
        /\ cancel[k].offer = o /\ cancel[k].seen = "active" /\ cancel[k].res = "200"
        /\ accept[r].offer = o /\ accept[r].seen = "active"
        /\ accept[r].pc = "done" /\ accept[r].err = "500 capture error"
        /\ offers[o].status = "cancelled"
        /\ intents[o].state = "canceled"
        /\ TransactionsOf(o) = {}

SavedItems == {i \in DOMAIN bulk.items : bulk.items[i].save = "saved"}

FailedItems == {i \in DOMAIN bulk.items : bulk.items[i].save = "failed"}

\* C19: when every save of a bulkUpload has ended, with some of them failed,
\* the listings that were saved are in the store and the response is a
\* success that counts them.
C19_PartialSuccessReported ==
    (bulk.pc = "done" /\ SavedItems # {} /\ FailedItems # {}) =>
        /\ \A i \in SavedItems : \E l \in listings : l.id = i
        /\ bulk.res = BulkSuccess(Cardinality(SavedItems))

SweepDue(o) == o \in sweep.due /\ offers[o].status = "active"

SweepExpired(o) ==
    /\ offers[o].status = "expired"
    /\ offers[o].holdStatus = "cancelled"
    /\ intents[o].state = "canceled"

\* a failed cancellation leaves the sweep running with every other offer it
\* had still to visit
FailureKeepsSweepGoing ==
    sweep'.failed # sweep.failed /\ sweep'.failed # {} =>
        /\ sweep'.pc = "running"
        /\ \A p \in sweep.todo : p \in sweep'.todo \/ p \in sweep'.failed

\* C17: every active offer whose expiresAt has passed is eventually expired
\* with its hold cancelled, the sweep being periodic and the payment service
\* eventually accepting the cancellation; and the failure to cancel the hold
\* of one offer does not keep the sweep from the other offers.
C17_SweepExpiresDueOffers ==
    /\ \A o \in SweepOfferIds : SweepDue(o) ~> SweepExpired(o)
    /\ [][FailureKeepsSweepGoing]_vars

\* a sweep in which the hold of one offer could not be cancelled and another
\* offer was expired, the first one still active
C17_Witness ==
    /\ sweep.expired # {}
    /\ \E o \in sweep.failed : offers[o].status = "active"
    /\ \A o \in sweep.expired : SweepExpired(o)

====
